---------------------------- MODULE Spec2Model ----------------------------
(***************************************************************************)
(* Boolean query engine over RIS records (src/main.py): tokenize,          *)
(* shunting_yard, build_ast, ast_to_dnf, Expr.eval and the interactive     *)
(* loop of main.                                                           *)
(*                                                                         *)
(* A Python str is a sequence of one-character strings.  A Python          *)
(* IndexError is a result record whose ok field is FALSE.                  *)
(***************************************************************************)
EXTENDS Integers, Sequences, FiniteSets, TLC

VARIABLES
    pc,         \* position of the running code
    entries,    \* main: the records read from the RIS file
    query,      \* the query string being processed
    tokens,     \* tokenize's result
    tk_i,       \* shunting_yard: index of the next token of the for loop
    output,     \* shunting_yard: the output list
    stack,      \* shunting_yard: the operator stack
    rpn,        \* shunting_yard's result, build_ast's input
    rpn_i,      \* build_ast: index of the next element of the for loop
    ast_stack,  \* build_ast: the operand stack
    expr,       \* the expression tree
    dnf,        \* ast_to_dnf's result
    texto,      \* a candidate text
    truth,      \* [direct, by_dnf]: expr.eval(texto) and the any/all evaluation
    results,    \* main: the identifiers collected in this iteration
    printed,    \* main: the lines printed in this iteration
    n_files,    \* main: the number of output files written so far
    failure     \* the place an uncaught IndexError was raised, or "none"

vars == <<pc, entries, query, tokens, tk_i, output, stack, rpn, rpn_i,
          ast_stack, expr, dnf, texto, truth, results, printed, n_files,
          failure>>

---------------------------------------------------------------------------
(* Bounds of the model.                                                    *)

\* longest query, in items (words and parentheses), of the parser's inputs
MaxItems == 4
\* longest query, in items, typed at the prompt of main besides the two shapes
MaxLoopItems == 2
\* most records in the RIS file
MaxEntries == 2
\* most output files written in one session
MaxFiles == 2
\* most nodes of an expression tree given to ast_to_dnf
MaxNodes == 6
\* longest candidate text given to Expr.eval
MaxTextLen == 2

---------------------------------------------------------------------------
(* Strings.                                                                *)

LowerChars ==
    <<"a","b","c","d","e","f","g","h","i","j","k","l","m","n","o","p","q",
      "r","s","t","u","v","w","x","y","z","ô">>

UpperChars ==
    <<"A","B","C","D","E","F","G","H","I","J","K","L","M","N","O","P","Q",
      "R","S","T","U","V","W","X","Y","Z","Ô">>

IndexIn(table, c) ==
    IF \E i \in 1..Len(table) : table[i] = c
    THEN CHOOSE i \in 1..Len(table) : table[i] = c
    ELSE 0

\* str.upper, one character
UpperChar(c) ==
    LET i == IndexIn(LowerChars, c) IN IF i = 0 THEN c ELSE UpperChars[i]

\* str.lower, one character
LowerChar(c) ==
    LET i == IndexIn(UpperChars, c) IN IF i = 0 THEN c ELSE LowerChars[i]

\* str.upper
upper(s) == [i \in 1..Len(s) |-> UpperChar(s[i])]

\* str.lower
lower(s) == [i \in 1..Len(s) |-> LowerChar(s[i])]

\* \s of the regular expression and of str.strip
IsSpace(c) == c = " "

\* \d of the regular expression
IsDigit(c) == c \in {"0","1","2","3","4","5","6","7","8","9"}

\* \w of the regular expression
IsWordChar(c) ==
    IndexIn(LowerChars, c) > 0 \/ IndexIn(UpperChars, c) > 0 \/ IsDigit(c) \/ c = "_"

\* [^()\s] of the regular expression
IsTermChar(c) == ~IsSpace(c) /\ c # "(" /\ c # ")"

\* str.strip
strip(s) ==
    LET keep == {i \in 1..Len(s) : ~IsSpace(s[i])}
    IN  IF keep = {} THEN <<>>
        ELSE LET lo == CHOOSE i \in keep : \A j \in keep : i <= j
                 hi == CHOOSE i \in keep : \A j \in keep : j <= i
             IN  SubSeq(s, lo, hi)

\* sub in s
Contains(s, sub) ==
    \E i \in 1..(Len(s) - Len(sub) + 1) : SubSeq(s, i, i + Len(sub) - 1) = sub

\* sep.join(parts)
RECURSIVE join(_, _)
join(sep, parts) ==
    IF parts = <<>> THEN <<>>
    ELSE IF Len(parts) = 1 THEN parts[1]
    ELSE parts[1] \o sep \o join(sep, Tail(parts))

KwAND == <<"A","N","D">>
KwOR  == <<"O","R">>
KwNOT == <<"N","O","T">>
LPAREN == <<"(">>
RPAREN == <<")">>

\* the words, tags and identifiers of the inputs
W_lixo == <<"l","i","x","o">>
W_papel == <<"p","a","p","e","l">>
W_eletronico == <<"e","l","e","t","r","o","n","i","c","o">>
W_eletronico_acento == <<"e","l","e","t","r","ô","n","i","c","o">>
W_estudo == <<"e","s","t","u","d","o">>
W_sobre == <<"s","o","b","r","e">>
W_urbano == <<"u","r","b","a","n","o">>
W_reciclagem == <<"r","e","c","i","c","l","a","g","e","m">>
W_de == <<"d","e">>
W_Lixo == <<"L","i","x","o">>
W_and == <<"a","n","d">>
W_sair == <<"s","a","i","r">>
TagTI == <<"T","I">>
TagAB == <<"A","B">>
TagKW == <<"K","W">>
TagDO == <<"D","O">>
TagUR == <<"U","R">>
TagTY == <<"T","Y">>
TagER == <<"E","R">>
W_JOUR == <<"J","O","U","R">>
DoiOrg == <<"d","o","i",".","o","r","g","/">>
TenDot == <<"1","0",".">>
Id1 == <<"1","0",".","1","0","0","0","/","x","1">>
Id2 == <<"h","t","t","p","s",":","/","/","d","o","i",".","o","r","g","/","1","0",".","1","0","0","0","/","x","2">>
Id3 == <<" ","r","3"," ">>

---------------------------------------------------------------------------
(* tokenize.                                                               *)

\* \b at position i: between s[i-1] and s[i]
WordBoundary(s, i) ==
    (i > 1 /\ i - 1 <= Len(s) /\ IsWordChar(s[i - 1]))
        # (i <= Len(s) /\ IsWordChar(s[i]))

\* \bKW\b with re.IGNORECASE at position i: the position after the match, or 0
MatchKeyword(s, i, kw) ==
    LET e == i + Len(kw)
    IN  IF /\ e - 1 <= Len(s)
           /\ upper(SubSeq(s, i, e - 1)) = kw
           /\ WordBoundary(s, i)
           /\ WordBoundary(s, e)
        THEN e ELSE 0

\* [^()\s]+ at position i: the position after the longest run (i when there is none)
RECURSIVE RunEnd(_, _)
RunEnd(s, i) ==
    IF i <= Len(s) /\ IsTermChar(s[i]) THEN RunEnd(s, i + 1) ELSE i

\* \s+ at position i: the position after the longest run (i when there is none)
RECURSIVE SpaceEnd(_, _)
SpaceEnd(s, i) ==
    IF i <= Len(s) /\ IsSpace(s[i]) THEN SpaceEnd(s, i + 1) ELSE i

\* (?:\s+[^()\s]+)* greedy from position e: the position after the last repetition
RECURSIVE MoreWords(_, _)
MoreWords(s, e) ==
    LET p == SpaceEnd(s, e)
        r == RunEnd(s, p)
    IN  IF p > e /\ r > p THEN MoreWords(s, r) ELSE e

\* [^()\s]+(?:\s+[^()\s]+)* at position i: the position after the match, or 0
MatchTerm(s, i) ==
    LET r == RunEnd(s, i) IN IF r = i THEN 0 ELSE MoreWords(s, r)

\* the alternation, tried in its written order, at position i
MatchAt(s, i) ==
    IF s[i] = "(" \/ s[i] = ")" THEN i + 1
    ELSE IF MatchKeyword(s, i, KwAND) > 0 THEN MatchKeyword(s, i, KwAND)
    ELSE IF MatchKeyword(s, i, KwOR) > 0 THEN MatchKeyword(s, i, KwOR)
    ELSE IF MatchKeyword(s, i, KwNOT) > 0 THEN MatchKeyword(s, i, KwNOT)
    ELSE MatchTerm(s, i)

\* re.findall from position i: the non-overlapping matches, left to right
RECURSIVE FindAll(_, _)
FindAll(s, i) ==
    IF i > Len(s) THEN <<>>
    ELSE LET e == MatchAt(s, i)
         IN  IF e = 0 THEN FindAll(s, i + 1)
             ELSE <<SubSeq(s, i, e - 1)>> \o FindAll(s, e)

\* [t.strip() for t in tokens if t.strip()]
RECURSIVE StripAll(_)
StripAll(ts) ==
    IF ts = <<>> THEN <<>>
    ELSE IF strip(Head(ts)) = <<>> THEN StripAll(Tail(ts))
    ELSE <<strip(Head(ts))>> \o StripAll(Tail(ts))

tokenize(q) == StripAll(FindAll(q, 1))

---------------------------------------------------------------------------
(* shunting_yard.  A list is a sequence whose last element is the top.     *)

Operators == {KwNOT, KwAND, KwOR}

\* prec = {'NOT':3,'AND':2,'OR':1}
prec(op) == IF op = KwNOT THEN 3 ELSE IF op = KwAND THEN 2 ELSE 1

\* prec.get(x, 0)
precGet(x) == IF x \in Operators THEN prec(x) ELSE 0

Top(stk) == stk[Len(stk)]
Pop(stk) == SubSeq(stk, 1, Len(stk) - 1)

\* the condition of the while loop of an operator token, given a non-empty stack
PopsTop(top, up) == top # LPAREN /\ precGet(top) >= prec(up)

\* while stack and stack[-1] != '(' and prec.get(stack[-1],0) >= prec[up]:
\*     output.append(stack.pop())
RECURSIVE PopOperators(_, _, _)
PopOperators(out, stk, up) ==
    IF stk # <<>> /\ PopsTop(Top(stk), up)
    THEN PopOperators(Append(out, Top(stk)), Pop(stk), up)
    ELSE [output |-> out, stack |-> stk]

\* while stack and stack[-1] != '(': output.append(stack.pop())
RECURSIVE PopToParen(_, _)
PopToParen(out, stk) ==
    IF stk # <<>> /\ Top(stk) # LPAREN
    THEN PopToParen(Append(out, Top(stk)), Pop(stk))
    ELSE [output |-> out, stack |-> stk]

\* the statement after the loop of a ')' token: stack.pop(), which raises
\* IndexError on an empty list
DiscardParen(st) ==
    IF st.stack = <<>>
    THEN [ok |-> FALSE, output |-> st.output, stack |-> st.stack]
    ELSE [ok |-> TRUE, output |-> st.output, stack |-> Pop(st.stack)]

\* one iteration of the for loop of shunting_yard
ShuntToken(out, stk, tk) ==
    LET up == upper(tk)
    IN  IF up \in Operators
        THEN LET st == PopOperators(out, stk, up)
             IN  [ok |-> TRUE, output |-> st.output, stack |-> Append(st.stack, up)]
        ELSE IF tk = LPAREN
        THEN [ok |-> TRUE, output |-> out, stack |-> Append(stk, tk)]
        ELSE IF tk = RPAREN
        THEN DiscardParen(PopToParen(out, stk))
        ELSE [ok |-> TRUE, output |-> Append(out, tk), stack |-> stk]

\* while stack: op = stack.pop(); if op not in ('(',')'): output.append(op)
RECURSIVE ShuntDrain(_, _)
ShuntDrain(out, stk) ==
    IF stk = <<>> THEN out
    ELSE IF Top(stk) \notin {LPAREN, RPAREN}
    THEN ShuntDrain(Append(out, Top(stk)), Pop(stk))
    ELSE ShuntDrain(out, Pop(stk))

RECURSIVE ShuntFrom(_, _, _, _)
ShuntFrom(tks, i, out, stk) ==
    IF i > Len(tks) THEN [ok |-> TRUE, output |-> ShuntDrain(out, stk)]
    ELSE LET st == ShuntToken(out, stk, tks[i])
         IN  IF st.ok THEN ShuntFrom(tks, i + 1, st.output, st.stack)
             ELSE [ok |-> FALSE, output |-> st.output]

shunting_yard(tks) == ShuntFrom(tks, 1, <<>>, <<>>)

---------------------------------------------------------------------------
(* The expression classes and build_ast.                                   *)

\* the places of main.py that raise IndexError
NoFailure      == "none"
UnmatchedParen == "shunting_yard: stack.pop() on an empty stack (line 72)"
PopFromEmpty   == "build_ast: stack.pop() on an empty stack (lines 87-93)"
NoOperand      == "build_ast: stack[0] of an empty stack (line 97)"

\* the value of a variable that holds no expression yet
NoExpr == [op |-> "None"]

\* Term.__init__
Term(term) == [op |-> "Term", term |-> strip(lower(term))]

\* NotOp.__init__
NotOp(child) == [op |-> "NotOp", child |-> child]

\* AndOp: BinOp.__init__
AndOp(left, right) == [op |-> "AndOp", left |-> left, right |-> right]

\* OrOp: BinOp.__init__
OrOp(left, right) == [op |-> "OrOp", left |-> left, right |-> right]

\* one iteration of the for loop of build_ast; list.pop() raises IndexError on
\* an empty list
BuildToken(stk, tk) ==
    LET up == upper(tk)
        n  == Len(stk)
    IN  IF up = KwNOT
        THEN IF n < 1 THEN [ok |-> FALSE, raised |-> PopFromEmpty, stack |-> stk]
             ELSE [ok |-> TRUE, raised |-> NoFailure,
                   stack |-> Append(Pop(stk), NotOp(stk[n]))]
        ELSE IF up = KwAND
        THEN IF n < 2 THEN [ok |-> FALSE, raised |-> PopFromEmpty, stack |-> stk]
             ELSE [ok |-> TRUE, raised |-> NoFailure,
                   stack |-> Append(SubSeq(stk, 1, n - 2), AndOp(stk[n - 1], stk[n]))]
        ELSE IF up = KwOR
        THEN IF n < 2 THEN [ok |-> FALSE, raised |-> PopFromEmpty, stack |-> stk]
             ELSE [ok |-> TRUE, raised |-> NoFailure,
                   stack |-> Append(SubSeq(stk, 1, n - 2), OrOp(stk[n - 1], stk[n]))]
        ELSE [ok |-> TRUE, raised |-> NoFailure, stack |-> Append(stk, Term(tk))]

\* return stack[0], which raises IndexError on an empty list
BuildReturn(stk) ==
    IF stk = <<>> THEN [ok |-> FALSE, raised |-> NoOperand, stack |-> stk, expr |-> NoExpr]
    ELSE [ok |-> TRUE, raised |-> NoFailure, stack |-> stk, expr |-> stk[1]]

RECURSIVE BuildFrom(_, _, _)
BuildFrom(postfix, i, stk) ==
    IF i > Len(postfix) THEN BuildReturn(stk)
    ELSE LET st == BuildToken(stk, postfix[i])
         IN  IF st.ok THEN BuildFrom(postfix, i + 1, st.stack)
             ELSE [ok |-> FALSE, raised |-> st.raised, stack |-> st.stack,
                   expr |-> NoExpr]

build_ast(postfix) == BuildFrom(postfix, 1, <<>>)

parse_query(q) ==
    LET sy == shunting_yard(tokenize(q))
    IN  IF sy.ok THEN build_ast(sy.output)
        ELSE [ok |-> FALSE, raised |-> UnmatchedParen, stack |-> <<>>,
              expr |-> NoExpr]

---------------------------------------------------------------------------
(* Expr.eval and ast_to_dnf.                                               *)

RECURSIVE eval(_, _)
eval(e, txt) ==
    IF e.op = "Term" THEN Contains(lower(txt), e.term)
    ELSE IF e.op = "NotOp" THEN ~eval(e.child, txt)
    ELSE IF e.op = "AndOp" THEN eval(e.left, txt) /\ eval(e.right, txt)
    ELSE eval(e.left, txt) \/ eval(e.right, txt)

\* [l + r for r in right_clauses], for one l
RECURSIVE WithEachRight(_, _)
WithEachRight(l, rights) ==
    IF rights = <<>> THEN <<>>
    ELSE <<l \o Head(rights)>> \o WithEachRight(l, Tail(rights))

\* Combinations with a slip: only the first clause of the left operand is combined
CombinationsFirstLeft(lefts, rights) ==
    IF lefts = <<>> THEN <<>> ELSE WithEachRight(Head(lefts), rights)

\* [l + r for l in left_clauses], for one r
RECURSIVE WithEachLeft(_, _)
WithEachLeft(lefts, r) ==
    IF lefts = <<>> THEN <<>>
    ELSE <<Head(lefts) \o r>> \o WithEachLeft(Tail(lefts), r)

\* Combinations with a slip: the two for clauses of the comprehension swapped
RECURSIVE CombinationsRightMajor(_, _)
CombinationsRightMajor(lefts, rights) ==
    IF rights = <<>> THEN <<>>
    ELSE WithEachLeft(lefts, Head(rights))
             \o CombinationsRightMajor(lefts, Tail(rights))

\* [l + r for l in left_clauses for r in right_clauses]
RECURSIVE Combinations(_, _)
Combinations(lefts, rights) ==
    IF lefts = <<>> THEN <<>>
    ELSE WithEachRight(Head(lefts), rights) \o Combinations(Tail(lefts), rights)

RECURSIVE ast_to_dnf(_)
ast_to_dnf(e) ==
    IF e.op = "Term" \/ e.op = "NotOp" THEN <<(<<e>>)>>
    ELSE IF e.op = "OrOp" THEN ast_to_dnf(e.left) \o ast_to_dnf(e.right)
    ELSE IF e.op = "AndOp"
    THEN Combinations(ast_to_dnf(e.left), ast_to_dnf(e.right))
    ELSE <<>>

\* all(c.eval(texto) for c in conj)
AllHold(conj, txt) == \A k \in 1..Len(conj) : eval(conj[k], txt)

\* any(all(c.eval(texto) for c in conj) for conj in dnf)
AnyClause(clauses, txt) == \E k \in 1..Len(clauses) : AllHold(clauses[k], txt)

---------------------------------------------------------------------------
(* The RIS records: extract_tag and clean_id.                              *)

StartsWith(s, prefix) ==
    Len(s) >= Len(prefix) /\ SubSeq(s, 1, Len(prefix)) = prefix

\* [ln[len(prefix):].strip() for ln in entry if ln.startswith(prefix)]
RECURSIVE TagValues(_, _)
TagValues(entry, prefix) ==
    IF entry = <<>> THEN <<>>
    ELSE IF StartsWith(Head(entry), prefix)
    THEN <<strip(SubSeq(Head(entry), Len(prefix) + 1, Len(Head(entry))))>>
             \o TagValues(Tail(entry), prefix)
    ELSE TagValues(Tail(entry), prefix)

extract_tag(entry, tag) == TagValues(entry, tag \o <<" "," ","-">>)

\* \S+ at position i: the position after the longest run (i when there is none)
RECURSIVE NonSpaceEnd(_, _)
NonSpaceEnd(s, i) ==
    IF i <= Len(s) /\ ~IsSpace(s[i]) THEN NonSpaceEnd(s, i + 1) ELSE i

\* doi\.org/\S+ with re.IGNORECASE at position i
IsDoiOrgAt(raw, i) ==
    /\ i + Len(DoiOrg) <= Len(raw)
    /\ lower(SubSeq(raw, i, i + Len(DoiOrg) - 1)) = DoiOrg
    /\ ~IsSpace(raw[i + Len(DoiOrg)])

\* 10\.\d{k}/[^\s]+ at position i
IsTenAt(raw, i, k) ==
    /\ i + Len(TenDot) + k + 1 <= Len(raw)
    /\ SubSeq(raw, i, i + Len(TenDot) - 1) = TenDot
    /\ \A j \in (i + Len(TenDot))..(i + Len(TenDot) + k - 1) : IsDigit(raw[j])
    /\ raw[i + Len(TenDot) + k] = "/"
    /\ ~IsSpace(raw[i + Len(TenDot) + k + 1])

Leftmost(S) == CHOOSE i \in S : \A j \in S : i <= j

clean_id(raw) ==
    LET doi == {i \in 1..Len(raw) : IsDoiOrgAt(raw, i)}
        ten == {i \in 1..Len(raw) : \E k \in 4..9 : IsTenAt(raw, i, k)}
    IN  IF doi # {}
        THEN SubSeq(raw, Leftmost(doi),
                    NonSpaceEnd(raw, Leftmost(doi) + Len(DoiOrg)) - 1)
        ELSE IF ten # {}
        THEN SubSeq(raw, Leftmost(ten),
                    NonSpaceEnd(raw, Leftmost(ten) + Len(TenDot)) - 1)
        ELSE strip(raw)

\* texto = ' '.join(ti + ab + kws)
TextOf(ent) ==
    join(<<" ">>, extract_tag(ent, TagTI) \o extract_tag(ent, TagAB)
                      \o extract_tag(ent, TagKW))

\* raw = (extract_tag(ent, 'DO') or extract_tag(ent, 'UR') or [''])[0]
RawIdOf(ent) ==
    IF extract_tag(ent, TagDO) # <<>> THEN extract_tag(ent, TagDO)[1]
    ELSE IF extract_tag(ent, TagUR) # <<>> THEN extract_tag(ent, TagUR)[1]
    ELSE <<>>

\* the second loop over entries: the identifiers of the records that satisfy
\* some conjunction, those with an empty identifier left out
RECURSIVE Collect(_, _)
Collect(ents, clauses) ==
    IF ents = <<>> THEN <<>>
    ELSE IF AnyClause(clauses, TextOf(Head(ents)))
            /\ clean_id(RawIdOf(Head(ents))) # <<>>
    THEN <<clean_id(RawIdOf(Head(ents)))>> \o Collect(Tail(ents), clauses)
    ELSE Collect(Tail(ents), clauses)

\* the first loop: the number of records that satisfy one conjunction
CountOf(ents, conj) ==
    Cardinality({k \in 1..Len(ents) : AllHold(conj, TextOf(ents[k]))})

\* the lines main prints
Line(text, n) == [line |-> text, n |-> n]
MsgFim       == "Fim."
MsgDnf       == "DNF gerou n conjuncoes:"
MsgConj      == "i. expr -> n itens"
MsgNenhum    == "Nenhum item encontrado para essa query."
MsgTotal     == "Total geral de IDs: n"
MsgGravado   == "Gravado em: out_file"

\* print(f"\nDNF gerou {len(dnf)} conjunções:") and the line of each conjunction
Listing(ents, clauses) ==
    <<Line(MsgDnf, Len(clauses))>>
        \o [k \in 1..Len(clauses) |-> Line(MsgConj, CountOf(ents, clauses[k]))]

\* NoResults with a slip: the test of the empty list never succeeds
NoResultsNever(res) == FALSE

\* if not results:
NoResults(res) == res = <<>>

\* if query.upper() == 'SAIR':
IsQuit(q) == upper(q) = upper(W_sair)

---------------------------------------------------------------------------
(* The inputs.                                                             *)

\* the words and parentheses the queries are made of
Items == {W_lixo, W_papel, W_and, KwOR, KwNOT, LPAREN, RPAREN}

ItemSeqs(n) == UNION {[1..k -> Items] : k \in 0..n}

\* the query as typed: its items one space apart, a parenthesis against what it
\* encloses
RECURSIVE QueryFrom(_, _)
QueryFrom(items, k) ==
    IF k > Len(items) THEN <<>>
    ELSE (IF k > 1 /\ items[k - 1] # LPAREN /\ items[k] # RPAREN
          THEN <<" ">> ELSE <<>>)
             \o items[k] \o QueryFrom(items, k + 1)

QueryOf(items) == QueryFrom(items, 1)

\* "x OR y AND z"
OrAndQuery(x, y, z) == QueryOf(<<x, KwOR, y, KwAND, z>>)

\* "x AND (y OR z)"
AndOrQuery(x, y, z) == QueryOf(<<x, KwAND, LPAREN, y, KwOR, z, RPAREN>>)

PrecedenceWords == {W_lixo, W_papel}
ScenarioWords == {W_lixo, W_papel, W_eletronico, W_eletronico_acento}

\* the queries given to parse_query
ParserQueries ==
    {QueryOf(items) : items \in ItemSeqs(MaxItems)}
        \cup {OrAndQuery(x, y, z) : x \in PrecedenceWords, y \in PrecedenceWords,
                                    z \in PrecedenceWords}

\* the lines typed at the prompt of main
LoopLines ==
    {QueryOf(items) : items \in ItemSeqs(MaxLoopItems)}
        \cup {AndOrQuery(x, y, z) : x \in ScenarioWords, y \in ScenarioWords,
                                    z \in ScenarioWords}
        \cup {W_sair, upper(W_sair) \o <<" ">>}

RisLine(tag, value) == tag \o <<" "," ","-"," ">> \o value

\* "estudo sobre lixo eletronico urbano"
TextLixo == join(<<" ">>, <<W_estudo, W_sobre, W_lixo, W_eletronico, W_urbano>>)
\* "estudo sobre reciclagem de papel"
TextPapel == join(<<" ">>, <<W_estudo, W_sobre, W_reciclagem, W_de, W_papel>>)

Record1 ==
    <<RisLine(TagTY, W_JOUR), RisLine(TagTI, TextLixo), RisLine(TagDO, Id1),
      RisLine(TagER, <<>>)>>
Record2 ==
    <<RisLine(TagTY, W_JOUR), RisLine(TagTI, TextPapel), RisLine(TagUR, Id2),
      RisLine(TagER, <<>>)>>
Record3 ==
    <<RisLine(TagTI, W_Lixo), RisLine(TagAB, W_papel),
      RisLine(TagKW, W_eletronico_acento), RisLine(TagKW, W_urbano),
      RisLine(TagDO, Id3), RisLine(TagER, <<>>)>>
Record4 ==
    <<RisLine(TagTI, W_papel), RisLine(TagER, <<>>)>>

Records == {Record1, Record2, Record3, Record4}

\* the contents of the RIS file: up to MaxEntries different records
EntryLists ==
    {es \in UNION {[1..k -> Records] : k \in 0..MaxEntries} :
        \A i \in 1..Len(es) : \A j \in 1..Len(es) : i # j => es[i] # es[j]}

RawTerms == {<<"a">>, <<"B">>}
CrossRawTerms == {<<"a">>, <<"B">>, <<"c">>, <<" ","d"," ">>}
TextChars == {"a", "B", "c"}

\* the expression trees of exactly n nodes over RawTerms
RECURSIVE TreesOf(_)
TreesOf(n) ==
    IF n = 1 THEN {Term(r) : r \in RawTerms}
    ELSE {NotOp(c) : c \in TreesOf(n - 1)}
           \cup UNION {{AndOp(l, r) : l \in TreesOf(k), r \in TreesOf(n - 1 - k)}
                          : k \in 1..(n - 2)}
           \cup UNION {{OrOp(l, r) : l \in TreesOf(k), r \in TreesOf(n - 1 - k)}
                          : k \in 1..(n - 2)}

\* And(Or(p, q), Or(r, s))
CrossTree(p, q, r, s) == AndOp(OrOp(Term(p), Term(q)), OrOp(Term(r), Term(s)))

\* the expression trees given to ast_to_dnf
Trees ==
    UNION {TreesOf(n) : n \in 1..MaxNodes}
        \cup {CrossTree(p, q, r, s) : p \in CrossRawTerms, q \in CrossRawTerms,
                                      r \in CrossRawTerms, s \in CrossRawTerms}

\* the candidate texts given to Expr.eval
Texts == UNION {[1..n -> TextChars] : n \in 0..MaxTextLen}

---------------------------------------------------------------------------
(* The interactive loop of main.                                           *)

Idle ==
    /\ query = <<>> /\ tokens = <<>> /\ tk_i = 1 /\ output = <<>> /\ stack = <<>>
    /\ rpn = <<>> /\ rpn_i = 1 /\ ast_stack = <<>> /\ expr = NoExpr /\ dnf = <<>>
    /\ texto = <<>> /\ truth = [direct |-> FALSE, by_dnf |-> FALSE]
    /\ results = <<>> /\ printed = <<>> /\ n_files = 0 /\ failure = NoFailure

\* main has read the RIS file and is about to prompt
Init ==
    /\ pc = "prompt"
    /\ entries \in EntryLists
    /\ Idle

\* query = input(...).strip(), and the SAIR test
ReadQuery ==
    /\ pc = "prompt"
    /\ n_files < MaxFiles
    /\ \E typed \in LoopLines :
          /\ query' = strip(typed)
          /\ IF IsQuit(strip(typed))
             THEN pc' = "exited" /\ printed' = <<Line(MsgFim, 0)>>
             ELSE pc' = "parse" /\ printed' = <<>>
    /\ UNCHANGED <<entries, tokens, tk_i, output, stack, rpn, rpn_i, ast_stack,
                   expr, dnf, texto, truth, results, n_files, failure>>

\* expr = parse_query(query); dnf = ast_to_dnf(expr).  Nothing catches the
\* IndexError of parse_query: the process ends with a traceback.
ParseQuery ==
    /\ pc = "parse"
    /\ LET p == parse_query(query)
       IN  IF p.ok
           THEN /\ expr' = p.expr
                /\ dnf' = ast_to_dnf(p.expr)
                /\ pc' = "evaluate"
                /\ UNCHANGED failure
           ELSE /\ failure' = p.raised
                /\ pc' = "crashed"
                /\ UNCHANGED <<expr, dnf>>
    /\ UNCHANGED <<entries, query, tokens, tk_i, output, stack, rpn, rpn_i,
                   ast_stack, texto, truth, results, printed, n_files>>

\* the listing of the conjunctions and the collection of the results
Evaluate ==
    /\ pc = "evaluate"
    /\ printed' = Listing(entries, dnf)
    /\ results' = Collect(entries, dnf)
    /\ pc' = "report"
    /\ UNCHANGED <<entries, query, tokens, tk_i, output, stack, rpn, rpn_i,
                   ast_stack, expr, dnf, texto, truth, n_files, failure>>

\* the no-results message and continue, or the output file and its two lines.
\* The loop goes back to the prompt; query, expr, dnf and results are all
\* assigned anew before the next iteration reads them.
Report ==
    /\ pc = "report"
    /\ IF NoResults(results)
       THEN /\ printed' = Append(printed, Line(MsgNenhum, 0))
            /\ UNCHANGED n_files
       ELSE /\ n_files' = n_files + 1
            /\ printed' = printed \o <<Line(MsgTotal, Len(results)),
                                       Line(MsgGravado, 0)>>
    /\ pc' = "prompt"
    /\ query' = <<>> /\ expr' = NoExpr /\ dnf' = <<>> /\ results' = <<>>
    /\ UNCHANGED <<entries, tokens, tk_i, output, stack, rpn, rpn_i, ast_stack,
                   texto, truth, failure>>

Next == ReadQuery \/ ParseQuery \/ Evaluate \/ Report

Spec == Init /\ [][Next]_vars

---------------------------------------------------------------------------
(* parse_query on one query, one loop iteration of shunting_yard and of    *)
(* build_ast at a time.                                                    *)

InitParse ==
    /\ pc = "tokenize"
    /\ entries = <<>>
    /\ query \in ParserQueries
    /\ tokens = <<>> /\ tk_i = 1 /\ output = <<>> /\ stack = <<>>
    /\ rpn = <<>> /\ rpn_i = 1 /\ ast_stack = <<>> /\ expr = NoExpr /\ dnf = <<>>
    /\ texto = <<>> /\ truth = [direct |-> FALSE, by_dnf |-> FALSE]
    /\ results = <<>> /\ printed = <<>> /\ n_files = 0 /\ failure = NoFailure

\* tokens = tokenize(q), and the entry of shunting_yard
Tokenize ==
    /\ pc = "tokenize"
    /\ tokens' = tokenize(query)
    /\ tk_i' = 1 /\ output' = <<>> /\ stack' = <<>>
    /\ pc' = "shunt"
    /\ UNCHANGED <<entries, query, rpn, rpn_i, ast_stack, expr, dnf, texto,
                   truth, results, printed, n_files, failure>>

\* for tk in tokens: one iteration
ShuntStep ==
    /\ pc = "shunt"
    /\ tk_i <= Len(tokens)
    /\ LET st == ShuntToken(output, stack, tokens[tk_i])
       IN  /\ output' = st.output
           /\ stack' = st.stack
           /\ IF st.ok
              THEN tk_i' = tk_i + 1 /\ pc' = "shunt" /\ UNCHANGED failure
              ELSE UNCHANGED tk_i /\ pc' = "failed" /\ failure' = UnmatchedParen
    /\ UNCHANGED <<entries, query, tokens, rpn, rpn_i, ast_stack, expr, dnf,
                   texto, truth, results, printed, n_files>>

\* the loop that empties the stack, return output, and the entry of build_ast
ShuntReturn ==
    /\ pc = "shunt"
    /\ tk_i > Len(tokens)
    /\ rpn' = ShuntDrain(output, stack)
    /\ output' = ShuntDrain(output, stack)
    /\ stack' = <<>>
    /\ rpn_i' = 1 /\ ast_stack' = <<>>
    /\ pc' = "build"
    /\ UNCHANGED <<entries, query, tokens, tk_i, expr, dnf, texto, truth,
                   results, printed, n_files, failure>>

\* for tk in rpn: one iteration
BuildStep ==
    /\ pc = "build"
    /\ rpn_i <= Len(rpn)
    /\ LET st == BuildToken(ast_stack, rpn[rpn_i])
       IN  /\ ast_stack' = st.stack
           /\ IF st.ok
              THEN rpn_i' = rpn_i + 1 /\ pc' = "build" /\ UNCHANGED failure
              ELSE UNCHANGED rpn_i /\ pc' = "failed" /\ failure' = st.raised
    /\ UNCHANGED <<entries, query, tokens, tk_i, output, stack, rpn, expr, dnf,
                   texto, truth, results, printed, n_files>>

\* return stack[0]
BuildDone ==
    /\ pc = "build"
    /\ rpn_i > Len(rpn)
    /\ LET r == BuildReturn(ast_stack)
       IN  IF r.ok
           THEN expr' = r.expr /\ pc' = "parsed" /\ UNCHANGED failure
           ELSE UNCHANGED expr /\ pc' = "failed" /\ failure' = r.raised
    /\ UNCHANGED <<entries, query, tokens, tk_i, output, stack, rpn, rpn_i,
                   ast_stack, dnf, texto, truth, results, printed, n_files>>

NextParse == Tokenize \/ ShuntStep \/ ShuntReturn \/ BuildStep \/ BuildDone

SpecParse == InitParse /\ [][NextParse]_vars

---------------------------------------------------------------------------
(* ast_to_dnf on one expression tree, and the two evaluations of the       *)
(* result against one candidate text.                                      *)

InitDnf ==
    /\ pc = "convert"
    /\ entries = <<>>
    /\ query = <<>> /\ tokens = <<>> /\ tk_i = 1 /\ output = <<>> /\ stack = <<>>
    /\ rpn = <<>> /\ rpn_i = 1 /\ ast_stack = <<>>
    /\ expr \in Trees
    /\ dnf = <<>>
    /\ texto \in Texts
    /\ truth = [direct |-> FALSE, by_dnf |-> FALSE]
    /\ results = <<>> /\ printed = <<>> /\ n_files = 0 /\ failure = NoFailure

\* dnf = ast_to_dnf(expr)
Convert ==
    /\ pc = "convert"
    /\ dnf' = ast_to_dnf(expr)
    /\ pc' = "match"
    /\ UNCHANGED <<entries, query, tokens, tk_i, output, stack, rpn, rpn_i,
                   ast_stack, expr, texto, truth, results, printed, n_files,
                   failure>>

\* expr.eval(texto), and any(all(c.eval(texto) for c in conj) for conj in dnf)
Match ==
    /\ pc = "match"
    /\ truth' = [direct |-> eval(expr, texto), by_dnf |-> AnyClause(dnf, texto)]
    /\ pc' = "matched"
    /\ UNCHANGED <<entries, query, tokens, tk_i, output, stack, rpn, rpn_i,
                   ast_stack, expr, dnf, texto, results, printed, n_files,
                   failure>>

NextDnf == Convert \/ Match

SpecDnf == InitDnf /\ [][NextDnf]_vars

---------------------------------------------------------------------------
(* The properties.                                                         *)

\* C1: once an expression tree (a NotOp may wrap any subtree) has been
\* converted and both evaluations made against a text, expr.eval(texto) is
\* true exactly when some clause of ast_to_dnf(expr) has all its literals true.
C1_DnfPreservesEval ==
    pc = "matched" => (truth.direct <=> truth.by_dnf)

\* a matching And whose left literal is a NotOp around a compound subtree
C1_Witness ==
    /\ pc = "matched"
    /\ expr.op = "AndOp"
    /\ expr.left.op = "NotOp"
    /\ expr.left.child.op \in {"AndOp", "OrOp"}
    /\ truth.direct
    /\ truth.by_dnf

\* the identifiers main is to collect for "x AND (y OR z)": those of the records
\* whose text contains x and contains y or z
RECURSIVE AndOrIds(_, _, _, _)
AndOrIds(ents, x, y, z) ==
    IF ents = <<>> THEN <<>>
    ELSE LET txt == lower(TextOf(Head(ents)))
             hit == /\ Contains(txt, lower(x))
                    /\ Contains(txt, lower(y)) \/ Contains(txt, lower(z))
             cid == clean_id(RawIdOf(Head(ents)))
         IN  (IF hit /\ cid # <<>> THEN <<cid>> ELSE <<>>)
                 \o AndOrIds(Tail(ents), x, y, z)

\* C2: for a query "x AND (y OR z)" the records collected are exactly those
\* whose text contains x and contains y or z.
C2_AndOrMatches ==
    \A x \in ScenarioWords, y \in ScenarioWords, z \in ScenarioWords :
        (pc = "report" /\ query = AndOrQuery(x, y, z))
            => results = AndOrIds(entries, x, y, z)

\* C3: parse_query("x OR y AND z") returns OrOp(Term(x), AndOp(Term(y), Term(z))).
C3_AndBindsTighter ==
    \A x \in PrecedenceWords, y \in PrecedenceWords, z \in PrecedenceWords :
        (pc = "parsed" /\ query = OrAndQuery(x, y, z))
            => expr = OrOp(Term(x), AndOp(Term(y), Term(z)))

\* AND, OR or NOT, in any letter case, stands in t as a word of its own
HasKeywordWord(t) ==
    \E i \in 1..Len(t) : \E kw \in Operators : MatchKeyword(t, i, kw) > 0

\* C4: every token of tokenize is a parenthesis, an operator, or a term in
\* which AND, OR and NOT do not occur as standalone words.
C4_KeywordsAreOperatorTokens ==
    pc # "tokenize" =>
        \A k \in 1..Len(tokens) :
            \/ tokens[k] \in {LPAREN, RPAREN}
            \/ upper(tokens[k]) \in Operators
            \/ ~HasKeywordWord(tokens[k])

\* C5: a ')' token that arrives while the operator stack holds no '(' is
\* discarded and shunting_yard goes on to the next token without a failure.
C5_UnmatchedParenDiscarded ==
    [][(/\ pc = "shunt"
        /\ tk_i <= Len(tokens)
        /\ tokens[tk_i] = RPAREN
        /\ \A k \in 1..Len(stack) : stack[k] # LPAREN)
          => (pc' = "shunt" /\ tk_i' = tk_i + 1 /\ failure' = NoFailure)]_vars

\* C6: a query whose postfix evaluation pops from an empty operand stack does
\* not end the process: main goes back to its prompt.
C6_UnderflowNotFatal ==
    [][(pc = "parse" /\ parse_query(query).raised = PopFromEmpty)
          => pc' = "prompt"]_vars

\* C7: an iteration whose result list is empty prints the no-results message
\* and creates no file; a file is written only by an iteration whose result
\* list is not empty.
C7_FileOnlyWithResults ==
    [][/\ (pc = "report" /\ results = <<>>)
            => (/\ printed' = Append(printed, Line(MsgNenhum, 0))
                /\ n_files' = n_files)
       /\ (n_files' # n_files) => (pc = "report" /\ results # <<>>)]_vars

\* an iteration has ended with the no-results message and no file
C7_Witness ==
    /\ pc = "prompt"
    /\ entries # <<>>
    /\ printed # <<>>
    /\ printed[Len(printed)] = Line(MsgNenhum, 0)
    /\ n_files = 0

\* C8: for AndOp(l, r) the clauses are c1 ++ c2 for each c1 of ast_to_dnf(l)
\* and c2 of ast_to_dnf(r) in left-major order, as many as the product of the
\* two counts; And(Or(a,b), Or(c,d)) gives [a,c], [a,d], [b,c], [b,d].
C8_AndIsLeftMajorProduct ==
    (pc # "convert" /\ expr.op = "AndOp") =>
        LET L == ast_to_dnf(expr.left)
            R == ast_to_dnf(expr.right)
        IN  /\ Len(dnf) = Len(L) * Len(R)
            /\ \A i \in 1..Len(L) : \A j \in 1..Len(R) :
                   dnf[(i - 1) * Len(R) + j] = L[i] \o R[j]
            /\ expr = CrossTree(<<"a">>, <<"B">>, <<"c">>, <<" ","d"," ">>)
                   => dnf = << <<Term(<<"a">>), Term(<<"c">>)>>,
                               <<Term(<<"a">>), Term(<<"d">>)>>,
                               <<Term(<<"b">>), Term(<<"c">>)>>,
                               <<Term(<<"b">>), Term(<<"d">>)>> >>

\* And(Or(a,b), Or(c,d)) has been converted to its four clauses
C8_Witness ==
    /\ pc = "matched"
    /\ expr = CrossTree(<<"a">>, <<"B">>, <<"c">>, <<" ","d"," ">>)
    /\ Len(dnf) = 4
    /\ dnf[2] = <<Term(<<"a">>), Term(<<"d">>)>>

\* the operators an incoming operator is to pop: those at the top of the stack
\* of strictly greater precedence, or of equal precedence when the incoming
\* operator is not NOT
RECURSIVE PopsOfRule(_, _)
PopsOfRule(stk, up) ==
    IF /\ stk # <<>>
       /\ Top(stk) \in Operators
       /\ \/ prec(Top(stk)) > prec(up)
          \/ prec(Top(stk)) = prec(up) /\ up # KwNOT
    THEN <<Top(stk)>> \o PopsOfRule(Pop(stk), up)
    ELSE <<>>

\* C9: an operator token pops exactly the stack-top operators of strictly
\* greater precedence, or of equal precedence when it is not NOT: an incoming
\* NOT never pops a NOT.
C9_NotNeverPopsNot ==
    [][(/\ pc = "shunt"
        /\ tk_i <= Len(tokens)
        /\ upper(tokens[tk_i]) \in Operators)
          => output' = output \o PopsOfRule(stack, upper(tokens[tk_i]))]_vars

\* C10: when shunting_yard and build_ast complete, the operand stack holds
\* exactly one element, the expression returned.
C10_SingleOperandLeft ==
    pc = "parsed" => (Len(ast_stack) = 1 /\ expr = ast_stack[1])

============================================================================
